---- MODULE Spec2Model ----
(***************************************************************************)
(* Lightning Network simulator (src/lnsimulator/script.js): the random     *)
(* network generator, the capacity-constrained breadth-first router and    *)
(* the payment animation that consumes the router's path.                  *)
(*                                                                         *)
(* JavaScript arrays are 0-based, TLA+ sequences 1-based: the JavaScript   *)
(* element a[i] is the TLA+ element a[i + 1].  Node indices, channel       *)
(* endpoints and path entries keep their JavaScript (0-based) values.      *)
(***************************************************************************)
EXTENDS Integers, Sequences, FiniteSets, TLC

(* ---------------------------- bounds ----------------------------------- *)
\* largest node count the node-count select offers in the model
MaxNodes == 3
\* Math.random() in generateCapacity selects among the first MaxCapIndex
\* entries of the capacities table
MaxCapIndex == 1

(* ---------------------- JavaScript values ------------------------------ *)
\* parseInt / parseFloat of a string that is no number
NaN == -1000000
\* the value of an array read out of range, and of Array.prototype.find
\* when nothing matches
undefined == [undefined |-> TRUE]

\* a === b on numbers: NaN is equal to nothing, itself included
StrictEq(a, b) == a # NaN /\ b # NaN /\ a = b
\* a >= b on numbers: every comparison with NaN is false
Geq(a, b) == a # NaN /\ b # NaN /\ a >= b
\* a < b on numbers
Lt(a, b) == a # NaN /\ b # NaN /\ a < b

(* ------------------------- generator ----------------------------------- *)
\* the table of generateCapacity
capacities ==
    << 5000000, 10000000, 20000000, 30000000, 40000000, 50000000,
       60000000, 70000000, 80000000, 90000000, 100000000, 200000000 >>

\* getChannelClass
getChannelClass(capacity) ==
    IF capacity < 20000000 THEN "small"
    ELSE IF capacity < 50000000 THEN "medium"
    ELSE "large"

\* the text of node i: String.fromCharCode(65 + i % 26), followed by
\* Math.floor(i / 26) when i >= 26; kept as the pair <<char code, suffix>>,
\* suffix 0 standing for the empty suffix (Math.floor(i / 26) >= 1 otherwise)
NodeText(i) == << 65 + (i % 26), IF i >= 26 THEN i \div 26 ELSE 0 >>

\* the first loop of generateNetwork: numNodes fresh node elements.  Every
\* document.createElement gives a new element; ep, the epoch of the call that
\* creates it, stands for that identity.
NewNodes(n, ep) ==
    [k \in 1..(IF Lt(0, n) THEN n ELSE 0) |->
        [textContent |-> NodeText(k - 1), epoch |-> ep]]

\* the pairs (i, j) the nested loops of generateNetwork visit, in loop order
RECURSIVE PairsFrom(_, _, _)
PairsFrom(i, j, n) ==
    IF ~ Lt(i, n) THEN << >>
    ELSE IF ~ Lt(j, n) THEN PairsFrom(i + 1, i + 2, n)
    ELSE << <<i, j>> >> \o PairsFrom(i, j + 1, n)

PairSeq(n) == PairsFrom(0, 1, n)

\* What the two random draws of one loop iteration can give under channel
\* probability p (a percentage): 0 when Math.random() < channelProbability
\* is false, k >= 1 when it is true and generateCapacity then picks
\* capacities[k - 1] (JavaScript index).  Math.random() is in [0, 1): the
\* test cannot succeed when p <= 0 or p is NaN and cannot fail when p >= 1.
Draws(p) ==
    { k \in 0..MaxCapIndex : IF k = 0 THEN ~ Geq(p, 100) ELSE Lt(0, p) }

\* the channels the nested loops push, in push order, for the draws d; the
\* field element is the channel's div: its size class and its epoch
RECURSIVE PushChannels(_, _, _)
PushChannels(pairs, d, ep) ==
    IF pairs = << >> THEN << >>
    ELSE LET p == Head(pairs)
             rest == PushChannels(Tail(pairs), d, ep)
         IN  IF d[p] = 0 THEN rest
             ELSE << [element |-> [class |-> getChannelClass(capacities[d[p]]),
                                   epoch |-> ep],
                      start |-> p[1], end |-> p[2],
                      capacity |-> capacities[d[p]]] >> \o rest

\* mutant of ResetList: the list is not emptied
KeepList(old) == old

\* nodes = [] and channels = [] at the top of generateNetwork
ResetList(old) == << >>

Range(s) == { s[k] : k \in 1..Len(s) }

(* --------------------------- router ------------------------------------ *)
\* channels.find(c => (c.start === a && c.end === b) ||
\*                    (c.end === a && c.start === b)): the first match
FindChannel(ch, a, b) ==
    LET hits == { k \in 1..Len(ch) :
                    \/ StrictEq(ch[k].start, a) /\ StrictEq(ch[k].end, b)
                    \/ StrictEq(ch[k].end, a) /\ StrictEq(ch[k].start, b) }
    IN  IF hits = {} THEN undefined
        ELSE ch[CHOOSE k \in hits : \A m \in hits : k <= m]

\* the path.every(...) test of findPathWithCapacity
isPathValid(ch, path, amt) ==
    \A index \in 1..Len(path) :
        IF index = Len(path) THEN TRUE
        ELSE LET channel == FindChannel(ch, path[index], path[index + 1])
             IN  channel # undefined /\ Geq(channel.capacity, amt)

\* mutant of neighbors: only the channels that start at node are followed
neighborsForward(ch, node, amt) ==
    LET kept == SelectSeq(ch, LAMBDA c :
                    StrictEq(c.start, node) /\ Geq(c.capacity, amt))
    IN  [k \in 1..Len(kept) |-> kept[k].end]

\* channels.filter(...).map(...): the far ends of the channels at node that
\* can carry amt, in channel order
neighbors(ch, node, amt) ==
    LET kept == SelectSeq(ch, LAMBDA c :
                    (StrictEq(c.start, node) \/ StrictEq(c.end, node))
                    /\ Geq(c.capacity, amt))
    IN  [k \in 1..Len(kept) |->
            IF StrictEq(kept[k].start, node) THEN kept[k].end ELSE kept[k].start]

\* mutant of Shift: the first element is read and left in the queue
ShiftKeeps(q) == q

\* queue.shift(): the queue without its first element
Shift(q) == Tail(q)

\* mutant of PushAll: [neighbor] is pushed, the path so far is lost
PushAllBare(q, path, nbs) == q \o [k \in 1..Len(nbs) |-> << nbs[k] >>]

\* mutant of PushAll: queue.unshift, the search goes depth first
PushAllFront(q, path, nbs) == [k \in 1..Len(nbs) |-> Append(path, nbs[k])] \o q

\* the for loop pushing [...path, neighbor] for each neighbor
PushAll(q, path, nbs) == q \o [k \in 1..Len(nbs) |-> Append(path, nbs[k])]

\* mutant of Returns: a path of a single node is never returned
ReturnsAfterHop(ch, path, e, amt) ==
    Len(path) > 1 /\ StrictEq(path[Len(path)], e) /\ isPathValid(ch, path, amt)

\* does this iteration of the while loop return path?
Returns(ch, path, e, amt) ==
    StrictEq(path[Len(path)], e) /\ isPathValid(ch, path, amt)

\* does this iteration expand the last node of path?
Expands(path, vis) == path[Len(path)] \notin vis

\* the while loop of findPathWithCapacity, run to its return
RECURSIVE Search(_, _, _, _, _)
Search(ch, e, amt, q, vis) ==
    IF q = << >> THEN << >>
    ELSE LET path == Head(q)
         IN  IF Returns(ch, path, e, amt) THEN path
             ELSE IF Expands(path, vis)
             THEN Search(ch, e, amt,
                         PushAll(Shift(q), path, neighbors(ch, path[Len(path)], amt)),
                         vis \cup {path[Len(path)]})
             ELSE Search(ch, e, amt, Shift(q), vis)

findPathWithCapacity(ch, s, e, amt) == Search(ch, e, amt, << <<s>> >>, {})

(* ---------------------------- state ------------------------------------ *)
VARIABLES
    nodes,        \* let nodes: the node elements of the current network
    channels,     \* let channels: {element, start, end, capacity} records
    numNodes,     \* the numNodes constant of the latest generateNetwork call
    epoch,        \* which generateNetwork call created the current elements:
                  \* the number of calls so far, modulo 2
    nodeCount,    \* nodeCountSelect.value, parsed
    channelProbability, \* channelProbabilitySelect.value, parsed, in percent
    highlighted,  \* the elements whose classList holds 'highlighted'
    anim,         \* the closure of a payment animation (animate and
                  \* moveTransaction) whose next frame is pending
    report,       \* what the last handler or callback of the script showed:
                  \* an alert, an uncaught TypeError, or nothing
    start,        \* findPathWithCapacity: parameter start
    end,          \* findPathWithCapacity: parameter end
    amount,       \* findPathWithCapacity: parameter amount
    queue,        \* findPathWithCapacity: const queue
    visited,      \* findPathWithCapacity: const visited
    pc,           \* findPathWithCapacity: "idle", "loop" (in the while loop) or "done"
    result        \* findPathWithCapacity: the returned array

vars == << nodes, channels, numNodes, epoch, nodeCount, channelProbability,
           highlighted, anim, report, start, end, amount, queue, visited, pc, result >>

netVars == << nodes, channels, numNodes, epoch >>
pageVars == << nodeCount, channelProbability, highlighted, anim, report >>
callVars == << start, end, amount, queue, visited, pc, result >>

(* ------------------------ inputs of the model -------------------------- *)
\* values of the node-count select
NodeCounts == 0..MaxNodes
\* values of the channel-probability select, in percent
Probabilities == {0, 50, 100}
\* payment amounts: not a number, zero, each capacity the generator can draw
\* and one capacity above them all
Amounts == {NaN, 0} \cup { capacities[k] : k \in 1..(MaxCapIndex + 1) }
\* node indices handed to the router: 0..numNodes-1 are valid, the others not
Indices == 0..MaxNodes

\* the channel lists the loops of generateNetwork can push for node count n,
\* channel probability p and epoch ep
Generated(n, p, ep) ==
    { PushChannels(PairSeq(n), d, ep) : d \in [Range(PairSeq(n)) -> Draws(p)] }

\* no element highlighted
NoHighlight == [nodes |-> {}, channels |-> {}]
\* no animation frame pending
NoAnim == [running |-> FALSE, path |-> << >>, step |-> 0,
           senderIndex |-> 0, receiverIndex |-> 0]

\* the page before any payment
PageIdle ==
    /\ highlighted = NoHighlight
    /\ anim = NoAnim
    /\ report = "none"

\* no findPathWithCapacity call is being stepped through
CallIdle ==
    /\ start = 0
    /\ end = 0
    /\ amount = 0
    /\ queue = << >>
    /\ visited = {}
    /\ pc = "idle"
    /\ result = << >>

\* the state a generateNetwork call leaves, for some selects and random draws
FreshNetwork ==
    /\ nodeCount \in NodeCounts
    /\ channelProbability \in Probabilities
    /\ numNodes = nodeCount
    /\ epoch = 0
    /\ nodes = NewNodes(numNodes, epoch)
    /\ channels \in Generated(numNodes, channelProbability, epoch)

(* --------------- the router, one loop iteration per step ---------------- *)
RouterInit ==
    /\ FreshNetwork
    /\ PageIdle
    /\ start \in Indices
    /\ end \in Indices
    /\ amount \in Amounts
    /\ visited = {}
    /\ queue = << <<start>> >>
    /\ pc = "loop"
    /\ result = << >>

\* while (queue.length > 0) fails: return []
Exhausted ==
    /\ pc = "loop"
    /\ queue = << >>
    /\ pc' = "done"
    /\ result' = << >>
    /\ UNCHANGED << netVars, pageVars, start, end, amount, queue, visited >>

\* node === end and isPathValid: return path
ReturnPath ==
    /\ pc = "loop"
    /\ queue # << >>
    /\ Returns(channels, Head(queue), end, amount)
    /\ queue' = Shift(queue)
    /\ result' = Head(queue)
    /\ pc' = "done"
    /\ UNCHANGED << netVars, pageVars, start, end, amount, visited >>

\* !visited.has(node): mark it and push one extended path per neighbor
Expand ==
    /\ pc = "loop"
    /\ queue # << >>
    /\ ~ Returns(channels, Head(queue), end, amount)
    /\ Expands(Head(queue), visited)
    /\ LET path == Head(queue)
           node == path[Len(path)]
       IN  /\ visited' = visited \cup {node}
           /\ queue' = PushAll(Shift(queue), path, neighbors(channels, node, amount))
    /\ UNCHANGED << netVars, pageVars, start, end, amount, pc, result >>

\* visited.has(node): the path is dropped
Skip ==
    /\ pc = "loop"
    /\ queue # << >>
    /\ ~ Returns(channels, Head(queue), end, amount)
    /\ ~ Expands(Head(queue), visited)
    /\ queue' = Shift(queue)
    /\ UNCHANGED << netVars, pageVars, start, end, amount, visited, pc, result >>

RouterNext == Exhausted \/ ReturnPath \/ Expand \/ Skip

RouterSpec == RouterInit /\ [][RouterNext]_vars

\* the loop body runs to completion: JavaScript never suspends a running
\* function
RouterLiveSpec == RouterSpec /\ WF_vars(RouterNext)

(* ----------------------------- the page -------------------------------- *)
\* the user picks another node count
ChangeNodeCount ==
    /\ \E n \in NodeCounts \ {nodeCount} : nodeCount' = n
    /\ UNCHANGED << netVars, channelProbability, highlighted, anim, report, callVars >>

\* the user picks another channel probability
ChangeChannelProbability ==
    /\ \E p \in Probabilities \ {channelProbability} : channelProbability' = p
    /\ UNCHANGED << netVars, nodeCount, highlighted, anim, report, callVars >>

\* the click handler of the regenerate button, and the call at load time
generateNetwork ==
    \E d \in [Range(PairSeq(nodeCount)) -> Draws(channelProbability)] :
        /\ epoch' = 1 - epoch
        /\ numNodes' = nodeCount
        /\ nodes' = ResetList(nodes) \o NewNodes(nodeCount, epoch')
        /\ channels' = ResetList(channels) \o PushChannels(PairSeq(nodeCount), d, epoch')
        \* the new elements carry no highlight
        /\ highlighted' = NoHighlight
        /\ report' = "none"
        \* a pending animation frame is not cancelled
        /\ UNCHANGED << nodeCount, channelProbability, anim, callVars >>

\* the options populateNodeDropdowns leaves in the sender and receiver
\* selects: parseInt of the selected value, NaN for a select without options
DropdownValues == IF nodes = << >> THEN {NaN} ELSE 0..(Len(nodes) - 1)

\* nodes[i]
NodeAt(i) == IF i \in 0..(Len(nodes) - 1) THEN nodes[i + 1] ELSE undefined

\* the position in channels of the channel highlightPath finds for a hop
ChannelIndex(ch, a, b) ==
    { k \in 1..Len(ch) :
        /\ \/ StrictEq(ch[k].start, a) /\ StrictEq(ch[k].end, b)
           \/ StrictEq(ch[k].end, a) /\ StrictEq(ch[k].start, b)
        /\ \A m \in 1..(k - 1) :
             ~ \/ StrictEq(ch[m].start, a) /\ StrictEq(ch[m].end, b)
               \/ StrictEq(ch[m].end, a) /\ StrictEq(ch[m].start, b) }

\* clearHighlights followed by highlightPath(path)
highlightPath(ch, path) ==
    [nodes |-> Range(path),
     channels |-> UNION { ChannelIndex(ch, path[i], path[i + 1]) : i \in 1..(Len(path) - 1) }]

\* mutant of AfterPayment: the payment is taken off the capacity of every
\* channel of the path
ConsumeCapacity(ch, path, amt) ==
    [k \in 1..Len(ch) |->
        IF \E i \in 1..(Len(path) - 1) : k \in ChannelIndex(ch, path[i], path[i + 1])
        THEN [ch[k] EXCEPT !.capacity = @ - amt]
        ELSE ch[k]]

\* what sending a payment of amt along path does to the channel list: nothing
AfterPayment(ch, path, amt) == ch

\* The click handler of the send-payment button.  Each click that finds a path starts an animation of its
\* own, a closure over path, step, senderIndex and receiverIndex; the
\* closures share nothing but nodes, and anim is the newest of them.
animateTransaction(senderIndex, receiverIndex, paymentAmount) ==
    IF StrictEq(senderIndex, receiverIndex)
    THEN /\ report' = "alert: sender and receiver must be different"
         /\ UNCHANGED << netVars, nodeCount, channelProbability, highlighted,
                         anim, callVars >>
    ELSE \E path \in {findPathWithCapacity(channels, senderIndex, receiverIndex, paymentAmount)} :
             IF Len(path) = 0
             THEN /\ report' = "alert: no path found"
                  /\ UNCHANGED << netVars, nodeCount, channelProbability,
                                  highlighted, anim, callVars >>
             ELSE /\ highlighted' = highlightPath(channels, path)
                  /\ channels' = AfterPayment(channels, path, paymentAmount)
                  \* animate() with step = 0 < path.length - 1 reads
                  \* nodes[path[0]] and nodes[path[1]] (a TypeError when one
                  \* is undefined), then moveTransaction asks for a frame
                  /\ IF NodeAt(path[1]) = undefined \/ NodeAt(path[2]) = undefined
                     THEN /\ report' = "TypeError"
                          /\ UNCHANGED anim
                     ELSE /\ report' = "none"
                          /\ anim' = [running |-> TRUE, path |-> path, step |-> 0,
                                      senderIndex |-> senderIndex,
                                      receiverIndex |-> receiverIndex]
                  /\ UNCHANGED << nodes, numNodes, epoch, nodeCount,
                                  channelProbability, callVars >>

ClickSendPayment ==
    \E s \in DropdownValues, r \in DropdownValues, a \in Amounts :
        animateTransaction(s, r, a)

\* The requestAnimationFrame callback moveTransaction at the end of a hop
\* (progress = 1): step++ and animate().  A callback with progress < 1 moves
\* the marker and asks for another frame: it changes nothing of this state.
\* An uncaught TypeError ends the animation: no further frame is asked for.
AnimationFrame ==
    /\ anim.running
    /\ LET step == anim.step + 1
           path == anim.path
       IN  IF step >= Len(path) - 1
           THEN \* transaction.remove(); the alert reads
                \* nodes[senderIndex].textContent and
                \* nodes[receiverIndex].textContent
                /\ anim' = NoAnim
                /\ report' = IF \/ NodeAt(anim.senderIndex) = undefined
                                \/ NodeAt(anim.receiverIndex) = undefined
                             THEN "TypeError"
                             ELSE "alert: payment successfully sent"
           ELSE \* startNode.getBoundingClientRect(), endNode.getBoundingClientRect()
                IF \/ NodeAt(path[step + 1]) = undefined
                   \/ NodeAt(path[step + 2]) = undefined
                THEN /\ anim' = NoAnim
                     /\ report' = "TypeError"
                ELSE /\ anim' = [anim EXCEPT !.step = step]
                     /\ report' = "none"
    /\ UNCHANGED << netVars, nodeCount, channelProbability, highlighted, callVars >>

\* the page after the generateNetwork() call that ends the script
Init ==
    /\ FreshNetwork
    /\ PageIdle
    /\ CallIdle

Next ==
    \/ ChangeNodeCount
    \/ ChangeChannelProbability
    \/ generateNetwork
    \/ ClickSendPayment
    \/ AnimationFrame

Spec == Init /\ [][Next]_vars

\* the generator alone
GenNext == ChangeNodeCount \/ ChangeChannelProbability \/ generateNetwork

GenSpec == Init /\ [][GenNext]_vars

\* one generation of the network: payments, no click on regenerate
PayNext == ClickSendPayment \/ AnimationFrame

PaySpec == Init /\ [][PayNext]_vars

(* ------------------- reference notions of the claims ------------------- *)
\* the valid node indices of the current network
ValidIndex(i) == i \in 0..(Len(nodes) - 1)

\* a and b are joined by a channel of the current list that can carry amt
Joined(a, b, amt) ==
    \E k \in 1..Len(channels) :
        /\ {channels[k].start, channels[k].end} = {a, b}
        /\ amt # NaN
        /\ channels[k].capacity >= amt

\* the nodes within k hops of the set S over channels that can carry amt
RECURSIVE Within(_, _, _)
Within(S, k, amt) ==
    IF k = 0 THEN S
    ELSE LET near == Within(S, k - 1, amt)
         IN  near \cup { b \in 0..(Len(nodes) - 1) : \E a \in near : Joined(a, b, amt) }

\* some path of channels that can carry amt joins s and t
Connected(s, t, amt) == t \in Within({s}, Len(nodes), amt)

\* the fewest hops of such a path
MinHops(s, t, amt) ==
    CHOOSE k \in 0..Len(nodes) :
        /\ t \in Within({s}, k, amt)
        /\ \A m \in 0..(k - 1) : t \notin Within({s}, m, amt)

\* the outcomes findPathWithCapacity has: a path, or the empty array
Outcome ==
    IF pc # "done" THEN "running"
    ELSE IF result = << >> THEN "not-found"
    ELSE "path"

HasRepeat(path) == \E i, j \in 1..Len(path) : i < j /\ path[i] = path[j]

(* ------------------------------ claims --------------------------------- *)
\* C1: a non-empty path returned by findPathWithCapacity(start, end, amount)
\* begins with start, ends with end, and each pair of consecutive nodes is
\* joined by a channel of the current list whose capacity is >= amount.
C1_PathIsFeasible ==
    (pc = "done" /\ result # << >>) =>
        /\ result[1] = start
        /\ result[Len(result)] = end
        /\ \A i \in 1..(Len(result) - 1) : Joined(result[i], result[i + 1], amount)

C1_Witness ==
    /\ pc = "done"
    /\ Len(result) = 3
    /\ amount = capacities[1]

\* C2: for valid source # target and amount > 0, the result is the empty array
\* if and only if no path of channels with capacity >= amount joins source
\* and target.
C2_NotFoundIffDisconnected ==
    (/\ pc = "done"
     /\ ValidIndex(start) /\ ValidIndex(end) /\ start # end
     /\ amount # NaN /\ amount > 0)
    => (result = << >> <=> ~ Connected(start, end, amount))

C2_Witness ==
    /\ pc = "done"
    /\ ValidIndex(start) /\ ValidIndex(end) /\ start # end
    /\ amount = capacities[1]
    /\ channels # << >>
    /\ result = << >>

\* C3: a returned path has the fewest hops of all paths from source to target
\* over channels with capacity >= amount.
C3_FewestHops ==
    (pc = "done" /\ result # << >>) =>
        Len(result) - 1 = MinHops(start, end, amount)

C3_Witness ==
    /\ pc = "done"
    /\ Len(result) = 3
    /\ Cardinality(visited) = 2

\* C4: no node index occurs twice in a returned path, although the queue may
\* hold path prefixes that come back to a node.
C4_NoRepeatedNode == pc = "done" => ~ HasRepeat(result)

C4_Witness ==
    /\ pc = "done"
    /\ Len(result) >= 2
    /\ \E k \in 1..Len(queue) : HasRepeat(queue[k])

\* C5: a request whose source or target index is outside [0, numNodes) ends
\* in an input-validation error, an outcome that is neither a path nor the
\* not-found of a routing failure.
C5_OutOfRangeIsRejected ==
    (pc = "done" /\ (~ ValidIndex(start) \/ ~ ValidIndex(end)))
    => Outcome \notin {"not-found", "path"}

\* C6: a request with amount <= 0 is rejected with an input-validation error;
\* it never succeeds by returning a path.
C6_NonPositiveAmountIsRejected ==
    (/\ pc = "done"
     /\ ValidIndex(start) /\ ValidIndex(end) /\ start # end
     /\ amount # NaN /\ amount <= 0)
    => Outcome \notin {"not-found", "path"}

\* C7: after any sequence of generateNetwork calls the network holds exactly
\* numNodes nodes, every channel has 0 <= start < end < numNodes, no pair of
\* nodes has two channels, every capacity is one of the twelve values of the
\* table (5,000,000 .. 200,000,000), and no node or channel of an earlier
\* generation remains.
C7_NetworkWellFormed ==
    /\ Len(nodes) = numNodes
    /\ \A k \in 1..Len(nodes) : nodes[k].epoch = epoch
    /\ \A k \in 1..Len(channels) :
        /\ 0 <= channels[k].start
        /\ channels[k].start < channels[k].end
        /\ channels[k].end < numNodes
        /\ channels[k].capacity \in Range(capacities)
        /\ channels[k].capacity >= 5000000
        /\ channels[k].capacity <= 200000000
        /\ channels[k].element.epoch = epoch
        /\ \A m \in 1..(k - 1) :
            {channels[m].start, channels[m].end} # {channels[k].start, channels[k].end}
    /\ Cardinality(Range(capacities)) = 12

C7_Witness ==
    /\ epoch = 1
    /\ numNodes = 2
    /\ Len(channels) = 1
    /\ nodeCount = 3

\* C8: findPathWithCapacity terminates on every network, cycles included;
\* called with source = target it returns the path [source] without expanding
\* any node.
C8_Terminates ==
    /\ <>(pc = "done")
    /\ [](pc = "done" /\ StrictEq(start, end) => result = << start >> /\ visited = {})

C8_Witness ==
    /\ pc = "done"
    /\ Len(channels) = 3
    /\ Cardinality(visited) = 3
    /\ result = << >>

\* C9: with no regeneration, findPathWithCapacity calls and payments leave the
\* node list, the channel list and every channel capacity as they were, so
\* that a later call with the same arguments searches the same channels.
C9_PaymentsLeaveNetwork == [][nodes' = nodes /\ channels' = channels]_vars

C9_Witness ==
    /\ anim.running
    /\ anim.step = 1
    /\ highlighted.channels # {}

\* C10: at every step of a payment animation every node index of its path,
\* and the sender and receiver indices, are valid indices of the current
\* nodes list.
C10_AnimatedPathInNetwork ==
    anim.running =>
        \A i \in Range(anim.path) \cup {anim.senderIndex, anim.receiverIndex} :
            NodeAt(i) # undefined

====
